---- MODULE Spec2Model ----
(***************************************************************************)
(* State-machine model of the redux-playground demos.                      *)
(*                                                                         *)
(*  Spec    : the async-thunks demo (ThunkDemo.tsx): the users slice, the  *)
(*            two createAsyncThunk thunks, mockApi, and the buttons of     *)
(*            ThunkDemoContent.                                            *)
(*  SpecMut : the rtk-mutation demo (MutationDemo.tsx): the getPosts /     *)
(*            addPost / deletePost endpoints against the mock host's post  *)
(*            store.                                                       *)
(*                                                                         *)
(* JavaScript is single threaded: a handler, a timer callback or a         *)
(* response callback runs to completion (one action each), and the         *)
(* continuation of an `await` on an already settled promise runs as a      *)
(* microtask before any other callback (variable microtasks).              *)
(***************************************************************************)
EXTENDS Integers, Sequences, FiniteSets, TLC

VARIABLES
    users,       \* state.users of the thunk demo store (usersSlice state)
    userId,      \* useState('') of ThunkDemoContent: the input's text, a sequence of digits
    inflight,    \* the thunks whose payload creator has not settled, in dispatch order
    microtasks,  \* continuations of handleFetchBoth queued by a settled fetchUserById
    reported,    \* the last error reported outside the store: Null, or how it was reported
                 \* ("console.error" by a catch block, "unhandledrejection" when nothing caught it)
    now,         \* Date.now()
    db,          \* the mock host's post collection (rtk-mutation demo)
    cache,       \* the getPosts cache entry of the rtk-mutation store
    mutations,   \* the addPost / deletePost mutations that have not settled, in start order
    mounted,     \* whether MutationDemoContent is mounted (useGetPostsQuery subscribed)
    selectedUserId, \* useState(null) of QueryDemoContent (rtk-query demo)
    queryCache,  \* the cache entries of the rtk-query store, one per (endpoint, argument)
    calls        \* the calls of the fixture generators made so far, with their results

vars ==
    <<users, userId, inflight, microtasks, reported, now, db, cache, mutations, mounted,
      selectedUserId, queryCache, calls>>

thunkVars == <<users, userId, inflight, microtasks, reported>>
mutVars == <<db, cache, mutations, mounted>>
queryVars == <<selectedUserId, queryCache>>
genVars == <<calls>>

-----------------------------------------------------------------------------
(* Bounds of the model *)

\* number of thunks in flight at the same time
MaxInFlight == 3
\* number of clock ticks explored above the start of the run
MaxClock == 1
\* largest user id dispatched directly to the store
MaxUserId == 12
\* number of fixture generator calls recorded
MaxCalls == 2
\* the fixture generators are called for the ids -MaxGenId..MaxGenId
MaxGenId == 6
\* number of mutations in flight at the same time
MaxMutations == 2
\* number of posts in the host's collection
MaxPosts == 2

-----------------------------------------------------------------------------
(* mocks/server.ts *)

\* names.length, domains.length, titles.length, bodies.length
PoolSize == 5

\* Strings that the code transforms are modelled as sequences of characters.
names == <<
    <<"A","l","e","x"," ","J","o","h","n","s","o","n">>,
    <<"S","a","m"," ","W","i","l","s","o","n">>,
    <<"T","a","y","l","o","r"," ","B","r","o","w","n">>,
    <<"J","o","r","d","a","n"," ","D","a","v","i","s">>,
    <<"C","a","s","e","y"," ","M","i","l","l","e","r">> >>

domains == <<
    <<"e","x","a","m","p","l","e",".","c","o","m">>,
    <<"t","e","s","t",".","o","r","g">>,
    <<"d","e","m","o",".","n","e","t">>,
    <<"s","a","m","p","l","e",".","i","o">>,
    <<"m","o","c","k",".","d","e","v">> >>

titles == <<
    "Understanding React Hooks",
    "Redux Best Practices",
    "Building Modern Web Apps",
    "JavaScript ES6 Features",
    "Async Programming Patterns" >>

bodies == <<
    "This is a comprehensive guide to understanding the concepts...",
    "Learn the fundamental principles and best practices...",
    "A deep dive into modern development techniques...",
    "Exploring the latest features and improvements...",
    "Practical examples and real-world applications..." >>

\* String.prototype.toLowerCase on one character (the upper-case letters the pools use)
LowerChar(c) ==
    CASE c = "A" -> "a" [] c = "B" -> "b" [] c = "C" -> "c" [] c = "D" -> "d"
      [] c = "J" -> "j" [] c = "M" -> "m" [] c = "S" -> "s" [] c = "T" -> "t"
      [] c = "U" -> "u" [] c = "W" -> "w" [] OTHER -> c

toLowerCase(s) == [i \in 1..Len(s) |-> LowerChar(s[i])]

\* String.prototype.replace(from, to) with a string pattern: only the FIRST occurrence
RECURSIVE replace(_, _, _)
replace(s, from, to) ==
    IF s = <<>> THEN <<>>
    ELSE IF Head(s) = from THEN <<to>> \o Tail(s)
    ELSE <<Head(s)>> \o replace(Tail(s), from, to)

\* Math.floor(Math.random() * 20) + 1 ranges over 1..20; the model draws the two ends
PostsFieldMax == 20
RandomPostsField == {1, PostsFieldMax}

\* the JavaScript remainder a % b for b > 0: it has the sign of a
jsRem(a, b) == IF a >= 0 THEN a % b ELSE 0 - ((0 - a) % b)

\* String(n) for an integer n, as in the template literal `User ${id}`
DigitChar(d) ==
    CASE d = 0 -> "0" [] d = 1 -> "1" [] d = 2 -> "2" [] d = 3 -> "3" [] d = 4 -> "4"
      [] d = 5 -> "5" [] d = 6 -> "6" [] d = 7 -> "7" [] d = 8 -> "8" [] d = 9 -> "9"
RECURSIVE NatString(_)
NatString(n) ==
    IF n < 10 THEN <<DigitChar(n)>> ELSE NatString(n \div 10) \o <<DigitChar(n % 10)>>
toString(n) == IF n < 0 THEN <<"-">> \o NatString(0 - n) ELSE NatString(n)

\* `${undefined}` in a template literal
Undefined == <<"u","n","d","e","f","i","n","e","d">>

\* generateMockUser with the name drawn at random from the pool (by the random post count)
generateMockUserRandomName(id, posts, t) ==
    LET name == names[(posts % PoolSize) + 1]
        email == replace(toLowerCase(name), " ", ".") \o <<"@">> \o domains[(posts % PoolSize) + 1]
    IN  [id |-> id, name |-> name, email |-> email, posts |-> posts, createdAt |-> t]

\* generateMockUser(id), with the two random/time fields given by the caller.
\* names[i] and domains[i] are undefined for a negative index i.
generateMockUser(id, posts, t) ==
    LET i == jsRem(id, PoolSize)
        name == IF i >= 0 THEN names[i + 1] ELSE <<"U","s","e","r"," ">> \o toString(id)
        domain == IF i >= 0 THEN domains[i + 1] ELSE Undefined
        email == replace(toLowerCase(name), " ", ".") \o <<"@">> \o domain
    IN  [id |-> id, name |-> name, email |-> email, posts |-> posts, createdAt |-> t]

\* generateMockPost(userId, postId), createdAt being the clock reading t
generateMockPost(uid, postId, t) ==
    [id |-> postId, userId |-> uid,
     title |-> titles[(postId % PoolSize) + 1],
     body |-> bodies[(postId % PoolSize) + 1],
     createdAt |-> t]

-----------------------------------------------------------------------------
(* The user id input of ThunkDemoContent *)

\* what the user types for the number n: its decimal digits
RECURSIVE Digits(_)
Digits(n) == IF n < 10 THEN <<n>> ELSE Digits(n \div 10) \o <<n % 10>>

\* parseInt(userId) on a string of decimal digits
RECURSIVE parseIntAcc(_, _)
parseIntAcc(s, acc) == IF s = <<>> THEN acc ELSE parseIntAcc(Tail(s), acc * 10 + Head(s))
parseInt(s) == parseIntAcc(s, 0)

\* `if (id > 10) throw` of mockApi.fetchUser
NotFoundThreshold == 10

\* the ids typed in the model: on both sides of the threshold of mockApi.fetchUser
InputIds == {NotFoundThreshold, NotFoundThreshold + 1}
InputTexts == {<<>>} \cup {Digits(n) : n \in InputIds}

-----------------------------------------------------------------------------
(* The mock host (json-server behind MOCK_SERVER_URL), as seen by fetch() *)

\* null is the empty sequence and a present value v is <<v>> (currentUser, error, postsError)
Null == <<>>
Some(v) == <<v>>

\* GET /users/:id on the host: the stored record matching id
HostUser(id) ==
    [id |-> id, name |-> <<"D","b"," ","U","s","e","r">>, email |-> <<"u","s","e","r","@","d","b">>]

\* what `await fetch(.../users/${id})` can produce: a record, a non-OK answer, or a throw
HostUserResponses(id) ==
    { [kind |-> "ok", body |-> Some(HostUser(id))],
      [kind |-> "notOk", body |-> Null],
      [kind |-> "throw", body |-> Null] }

\* GET /posts?userId=:id on the host: the stored posts whose userId matches (maybe none)
HostPosts(uid) ==
    { <<>>,
      << [id |-> uid, userId |-> uid, title |-> "db post", body |-> "db body"] >> }

HostPostsResponses(uid) ==
    { [kind |-> "ok", body |-> ps] : ps \in HostPosts(uid) }
      \cup { [kind |-> "notOk", body |-> <<>>], [kind |-> "throw", body |-> <<>>] }

-----------------------------------------------------------------------------
(* mockApi (ThunkDemo.tsx) *)

\* two slips of the guard below: a threshold one too high, and >= for >
fetchUserThrowsAbove11(id) == id > NotFoundThreshold + 1
fetchUserThrowsFrom10(id) == id >= NotFoundThreshold

\* mockApi.fetchUser after its 1000 ms delay: `if (id > 10) throw new Error('User not found')`
fetchUserThrows(id) == id > NotFoundThreshold

UserNotFound == "User not found"

\* mockApi.fetchUser after the host's response: the response body when response.ok,
\* generateMockUser(id) when the answer is non-OK or the request threw
fetchUserValue(id, resp, posts, t) ==
    IF resp.kind = "ok" THEN resp.body[1] ELSE generateMockUser(id, posts, t)

\* Math.floor(Math.random() * 5) + 1 ranges over 1..5; the model draws the two ends
MaxGeneratedPosts == 5
RandomPostCount == {1, MaxGeneratedPosts}

\* the Date.now() readings of the generation loop: one per iteration, never decreasing
ClockReadings(n, from, to) ==
    { s \in [1..n -> from..to] : \A i \in 1..(n - 1) : s[i] <= s[i + 1] }

\* the fallback loop pushing generateMockPost(userId, Date.now()), without the + i
generatedPostsNoOffset(uid, readings) ==
    [i \in 1..Len(readings) |-> generateMockPost(uid, readings[i], readings[i])]

\* the fallback loop of mockApi.fetchUserPosts: posts.push(generateMockPost(userId, Date.now() + i))
generatedPosts(uid, readings) ==
    [i \in 1..Len(readings) |-> generateMockPost(uid, readings[i] + i, readings[i])]

\* mockApi.fetchUserPosts without its `posts.length > 0` test: an OK answer is returned as is
fetchUserPostsValueAnyOk(uid, resp, readings) ==
    IF resp.kind = "ok" THEN resp.body ELSE generatedPosts(uid, readings)

\* mockApi.fetchUserPosts after the host's response: the host's list when it is OK and
\* not empty, the generated list otherwise
fetchUserPostsValue(uid, resp, readings) ==
    IF resp.kind = "ok" /\ Len(resp.body) > 0 THEN resp.body ELSE generatedPosts(uid, readings)

fetchUserPostsUsesHost(resp) == resp.kind = "ok" /\ Len(resp.body) > 0

-----------------------------------------------------------------------------
(* usersSlice *)

initialState ==
    [currentUser |-> Null, userPosts |-> <<>>, loading |-> FALSE,
     postsLoading |-> FALSE, error |-> Null, postsError |-> Null]

clearUser(state) ==
    [state EXCEPT !.currentUser = Null, !.userPosts = <<>>, !.error = Null, !.postsError = Null]

clearErrors(state) == [state EXCEPT !.error = Null, !.postsError = Null]

\* a pending case that leaves the error of the previous request in place
fetchUserByIdPendingKeepsError(state) == [state EXCEPT !.loading = TRUE]
fetchUserByIdPending(state) == [state EXCEPT !.loading = TRUE, !.error = Null]
\* a fulfilled case that also drops the posts of the user shown before
fetchUserByIdFulfilledClearsPosts(state, payload) ==
    [state EXCEPT !.loading = FALSE, !.currentUser = Some(payload), !.userPosts = <<>>]
fetchUserByIdFulfilled(state, payload) ==
    [state EXCEPT !.loading = FALSE, !.currentUser = Some(payload)]
\* the rejected case reading action.error.message, which is 'Rejected' after rejectWithValue
fetchUserByIdRejectedReadsError(state, payload) ==
    [state EXCEPT !.loading = FALSE, !.error = Some("Rejected")]
\* a rejected case that stores the message and leaves loading set
fetchUserByIdRejectedKeepsLoading(state, payload) == [state EXCEPT !.error = Some(payload)]
fetchUserByIdRejected(state, payload) ==
    [state EXCEPT !.loading = FALSE, !.error = Some(payload)]

\* a pending case of fetchUserPosts that also clears the error of the user fetch
fetchUserPostsPendingClearsError(state) ==
    [state EXCEPT !.postsLoading = TRUE, !.postsError = Null, !.error = Null]
fetchUserPostsPending(state) == [state EXCEPT !.postsLoading = TRUE, !.postsError = Null]
\* the outcome of a fetchUserPosts whose mockApi has no fallback: anything but a stored
\* list of the host is a failure that the thunk turns into rejectWithValue
fetchUserPostsFailsWithoutHost(state, payload) ==
    IF payload[1].title = "db post"
    THEN [state EXCEPT !.postsLoading = FALSE, !.userPosts = payload]
    ELSE [state EXCEPT !.postsLoading = FALSE, !.postsError = Some("Failed to fetch")]
\* a fulfilled case of fetchUserPosts that stores the list and leaves postsLoading set
fetchUserPostsFulfilledKeepsLoading(state, payload) == [state EXCEPT !.userPosts = payload]
fetchUserPostsFulfilled(state, payload) ==
    [state EXCEPT !.postsLoading = FALSE, !.userPosts = payload]
fetchUserPostsRejected(state, payload) ==
    [state EXCEPT !.postsLoading = FALSE, !.postsError = Some(payload)]

-----------------------------------------------------------------------------
(* createAsyncThunk: fetchUserById, fetchUserPosts *)

FetchById == "users/fetchById"
FetchPosts == "users/fetchPosts"

\* the reducer case of a thunk's pending action
PendingReducer(thunk, state) ==
    IF thunk = FetchById THEN fetchUserByIdPending(state) ELSE fetchUserPostsPending(state)

\* the local variables of one run of handleFetchBoth: userResult, unset until unwrap returns
ChainLocals(userResult) == [userResult |-> userResult]

\* a thunk in flight: its argument (meta.arg), the handleFetchBoth run awaiting it (Null
\* when a button handler dispatched it), and where its payload creator stands: in the
\* setTimeout of mockApi ("timer") or in fetch() ("fetch").
\* superseded is instrumentation: a newer thunk of the same kind was dispatched meanwhile.
NewRequest(thunk, arg, chain) ==
    [thunk |-> thunk, arg |-> arg, chain |-> chain, pc |-> "timer", superseded |-> FALSE]

Supersede(reqs, thunk) ==
    [i \in 1..Len(reqs) |->
        IF reqs[i].thunk = thunk THEN [reqs[i] EXCEPT !.superseded = TRUE] ELSE reqs[i]]

\* the store and the running payload creators, as one value that dispatch transforms
World == [users |-> users, inflight |-> inflight, reported |-> reported]

\* dispatch(thunk(arg)): the pending action reaches the reducer synchronously and the
\* payload creator starts: mockApi is called and arms its setTimeout
dispatchThunk(w, thunk, arg, chain) ==
    [users |-> PendingReducer(thunk, w.users),
     inflight |-> Append(Supersede(w.inflight, thunk), NewRequest(thunk, arg, chain)),
     reported |-> w.reported]

Commit(w) ==
    /\ users' = w.users
    /\ inflight' = w.inflight
    /\ reported' = w.reported

\* the slots of MaxInFlight in use: the thunks in flight, and the fetchUserPosts that each
\* handleFetchBoth run still awaiting its user will dispatch
Reserved ==
    Len(inflight)
      + Cardinality({i \in 1..Len(inflight) :
                        inflight[i].thunk = FetchById /\ inflight[i].chain # Null})

Remove(reqs, r) == SubSeq(reqs, 1, r - 1) \o SubSeq(reqs, r + 1, Len(reqs))

\* the continuation of handleFetchBoth is queued when the fetchUserById it awaits settles
QueueContinuation(r, fulfilled, payload) ==
    IF inflight[r].chain # Null
    THEN microtasks' = Append(microtasks, [fulfilled |-> fulfilled, payload |-> payload])
    ELSE microtasks' = microtasks

\* a payload creator that calls mockApi.fetchUser again after a failure: the rejected
\* action is dispatched and the thunk stays in flight, in the setTimeout of the new call
RejectUserRetries(r, message) ==
    /\ users' = fetchUserByIdRejected(users, message)
    /\ inflight' = inflight
    /\ reported' = reported
    /\ microtasks' = microtasks

\* the payload creator of fetchUserById caught the error of mockApi.fetchUser and returned
\* rejectWithValue(error.message): the rejected action is dispatched
RejectUser(r, message) ==
    /\ users' = fetchUserByIdRejected(users, message)
    /\ inflight' = Remove(inflight, r)
    /\ reported' = reported
    /\ QueueContinuation(r, FALSE, message)

\* the payload creator of fetchUserById returned user: the fulfilled action is dispatched
FulfilUser(r, user) ==
    /\ users' = fetchUserByIdFulfilled(users, user)
    /\ inflight' = Remove(inflight, r)
    /\ reported' = reported
    /\ QueueContinuation(r, TRUE, user)

\* the payload creator of fetchUserPosts returned posts: the fulfilled action is dispatched
\* (a handleFetchBoth run awaiting it then ends)
FulfilPosts(r, posts) ==
    /\ users' = fetchUserPostsFulfilled(users, posts)
    /\ inflight' = Remove(inflight, r)
    /\ reported' = reported
    /\ microtasks' = microtasks

-----------------------------------------------------------------------------
(* ThunkDemoContent: the handlers behind the buttons *)

\* onChange of the input: setUserId(e.target.value)
SetUserId(text) ==
    /\ microtasks = <<>>
    /\ text # userId
    /\ userId' = text
    /\ reported' = reported
    /\ UNCHANGED <<users, inflight, microtasks, now, mutVars, queryVars, genVars>>

\* "Fetch User" (disabled={loading || !userId}): handleFetchUser
HandleFetchUser ==
    /\ microtasks = <<>>
    /\ ~users.loading /\ userId # <<>>
    /\ Reserved + 1 <= MaxInFlight
    /\ Commit(dispatchThunk(World, FetchById, parseInt(userId), Null))
    /\ UNCHANGED <<userId, microtasks, now, mutVars, queryVars, genVars>>

\* "Fetch Posts" (disabled={postsLoading || !currentUser}): handleFetchPosts
HandleFetchPosts ==
    /\ microtasks = <<>>
    /\ ~users.postsLoading /\ users.currentUser # Null
    /\ Reserved + 1 <= MaxInFlight
    /\ Commit(dispatchThunk(World, FetchPosts, users.currentUser[1].id, Null))
    /\ UNCHANGED <<userId, microtasks, now, mutVars, queryVars, genVars>>

\* handleFetchBoth with the first await forgotten: both thunks dispatched at the click
handleFetchBothNoAwait(w) ==
    dispatchThunk(dispatchThunk(w, FetchById, parseInt(userId), Some(ChainLocals(Null))),
                  FetchPosts, parseInt(userId), Some(ChainLocals(Null)))

\* handleFetchBoth up to its first await:
\* `await dispatch(fetchUserById(parseInt(userId))).unwrap()`
handleFetchBothStart(w) ==
    dispatchThunk(w, FetchById, parseInt(userId), Some(ChainLocals(Null)))

\* "Fetch Both" (disabled={loading || postsLoading || !userId}): handleFetchBoth
HandleFetchBoth ==
    /\ microtasks = <<>>
    /\ ~users.loading /\ ~users.postsLoading /\ userId # <<>>
    /\ Reserved + 2 <= MaxInFlight
    /\ Commit(handleFetchBothStart(World))
    /\ UNCHANGED <<userId, microtasks, now, mutVars, queryVars, genVars>>

\* handleFetchBoth fetching the posts of the id in the input instead of userResult.id
handleFetchBothFulfilledFromInput(w, userResult) ==
    dispatchThunk(w, FetchPosts, parseInt(userId), Some(ChainLocals(Some(userResult))))

\* handleFetchBoth after the first await when the user thunk was fulfilled: unwrap returns
\* the payload, `const userResult = ...; await dispatch(fetchUserPosts(userResult.id))`
handleFetchBothFulfilled(w, userResult) ==
    dispatchThunk(w, FetchPosts, userResult.id, Some(ChainLocals(Some(userResult))))

\* handleFetchBoth with the posts dispatch moved out of the try block: it runs after the catch
handleFetchBothRejectedGoesOn(w, error) ==
    dispatchThunk([w EXCEPT !.reported = Some([via |-> "console.error", error |-> error])],
                  FetchPosts, parseInt(userId), Some(ChainLocals(Null)))

\* handleFetchBoth after the first await when the user thunk was rejected: unwrap throws
\* the payload, the catch block logs it, and the handler returns
handleFetchBothRejected(w, error) ==
    [w EXCEPT !.reported = Some([via |-> "console.error", error |-> error])]

\* the queued continuation of handleFetchBoth runs
ChainContinue ==
    /\ microtasks # <<>>
    /\ LET m == Head(microtasks) IN
         IF m.fulfilled
         THEN Commit(handleFetchBothFulfilled(World, m.payload))
         ELSE Commit(handleFetchBothRejected(World, m.payload))
    /\ microtasks' = Tail(microtasks)
    /\ UNCHANGED <<userId, now, mutVars, queryVars, genVars>>

\* "Clear All": handleClear
HandleClear ==
    /\ microtasks = <<>>
    /\ users' = clearUser(users)
    /\ userId' = <<>>
    /\ reported' = reported
    /\ UNCHANGED <<inflight, microtasks, now, mutVars, queryVars, genVars>>

\* "Clear Errors": handleClearErrors
HandleClearErrors ==
    /\ microtasks = <<>>
    /\ users' = clearErrors(users)
    /\ reported' = reported
    /\ UNCHANGED <<userId, inflight, microtasks, now, mutVars, queryVars, genVars>>

-----------------------------------------------------------------------------
(* The callbacks of mockApi *)

\* the setTimeout of mockApi.fetchUser (1000 ms) or mockApi.fetchUserPosts (800 ms) fires:
\* fetchUser throws for id > 10, otherwise the request to the host is sent
TimerFires(r) ==
    /\ microtasks = <<>>
    /\ inflight[r].pc = "timer"
    /\ IF inflight[r].thunk = FetchById /\ fetchUserThrows(inflight[r].arg)
       THEN RejectUser(r, UserNotFound)
       ELSE /\ inflight' = [inflight EXCEPT ![r].pc = "fetch"]
            /\ reported' = reported
            /\ UNCHANGED <<users, microtasks>>
    /\ UNCHANGED <<userId, now, mutVars, queryVars, genVars>>

\* the host's answer to GET /users/:id arrives (or the request fails)
UserResponse(r, resp, posts) ==
    /\ microtasks = <<>>
    /\ inflight[r].pc = "fetch" /\ inflight[r].thunk = FetchById
    /\ FulfilUser(r, fetchUserValue(inflight[r].arg, resp, posts, now))
    /\ UNCHANGED <<userId, now, mutVars, queryVars, genVars>>

\* the host's answer to GET /posts?userId=:id arrives (or the request fails); the
\* generation loop reads the clock once per post
PostsResponse(r, resp, readings) ==
    /\ microtasks = <<>>
    /\ inflight[r].pc = "fetch" /\ inflight[r].thunk = FetchPosts
    /\ FulfilPosts(r, fetchUserPostsValue(inflight[r].arg, resp, readings))
    /\ now' = IF fetchUserPostsUsesHost(resp) THEN now ELSE readings[Len(readings)]
    /\ UNCHANGED <<userId, mutVars, queryVars, genVars>>

\* a millisecond passes
Tick ==
    /\ microtasks = <<>>
    /\ now < MaxClock
    /\ now' = now + 1
    /\ reported' = reported
    /\ UNCHANGED <<users, userId, inflight, microtasks, mutVars, queryVars, genVars>>

-----------------------------------------------------------------------------
(* mocks/server.ts: generateId *)

\* Math.floor(Math.random() * 1000) ranges over 0..999; the model draws 0 and 1
RandomRange == 1000
RandomOffsets == {r \in {0, 1} : r < RandomRange}

\* generateId(): Date.now() + Math.floor(Math.random() * 1000), t the clock reading and r
\* the random offset
generateId(t, r) == t + r

-----------------------------------------------------------------------------
(* The mock host's post store: GET /posts, POST /posts, DELETE /posts/:id *)

Ids(store) == {store[i].id : i \in 1..Len(store)}

\* getCollection('posts'): all records in insertion order
getCollection(store) == store

\* create('posts', payload): the record, with its new identifier, appended to the collection
create(store, payload, id) ==
    Append(store, [id |-> id, title |-> payload.title, body |-> payload.body,
                   userId |-> payload.userId])

\* the position of the record that delete('posts', id) removes: the first one matching id
IndexOf(store, id) ==
    CHOOSE i \in 1..Len(store) :
        store[i].id = id /\ \A j \in 1..(i - 1) : store[j].id # id

\* delete('posts', id): removes the matching record; NotFound when no record has that id
deleteFound(store, id) == id \in Ids(store)
delete(store, id) == Remove(store, IndexOf(store, id))

\* the two outcome shapes of a request: a success value, or a failure with its message
NoAnswer == [kind |-> "none", body |-> <<>>]
Ok(body) == [kind |-> "ok", body |-> body]
Failure(message) == [kind |-> message, body |-> <<>>]
NotFound == "NotFound"
Unreachable == "FETCH_ERROR"

-----------------------------------------------------------------------------
(* createApi (MutationDemo.tsx): the endpoints *)

PostTag == "Post"
tagTypes == {PostTag}

GetPosts == "getPosts"
AddPost == "addPost"
DeletePost == "deletePost"

\* getPosts: query: () => 'posts', providesTags: ['Post']
getPostsQuery == [method |-> "GET", resource |-> "posts", id |-> Null, body |-> Null]
providesTags(endpoint) == IF endpoint = GetPosts THEN {PostTag} ELSE {}

\* addPost: query: (newPost) => ({ url: 'posts', method: 'POST', body: newPost })
addPostQuery(newPost) ==
    [method |-> "POST", resource |-> "posts", id |-> Null, body |-> Some(newPost)]

\* deletePost building the url from the wrong id: `posts/${id + 1}`
deletePostQueryWrongId(id) ==
    [method |-> "DELETE", resource |-> "posts", id |-> Some(id + 1), body |-> Null]

\* deletePost: query: (id) => ({ url: `posts/${id}`, method: 'DELETE' })
deletePostQuery(id) ==
    [method |-> "DELETE", resource |-> "posts", id |-> Some(id), body |-> Null]

\* the mutations with their invalidatesTags left out
invalidatesNothing(endpoint) == {}

\* invalidatesTags: ['Post'] of addPost and of deletePost
invalidatesTags(endpoint) ==
    IF endpoint \in {AddPost, DeletePost} THEN {PostTag} ELSE {}

-----------------------------------------------------------------------------
(* The cache entry of getPosts and the invalidation contract *)

\* status, data and error are what useGetPostsQuery selects from; request is the fetch in
\* flight (Null when none) and invalidated marks an entry whose tag was invalidated while
\* a fetch was in flight.
\* writeSince is instrumentation: a write committed and no fetch has been started since.
initialCache ==
    [status |-> "uninitialized", data |-> Null, error |-> FALSE, request |-> Null,
     invalidated |-> FALSE, writeSince |-> FALSE]

\* a fetch of getPosts starts: the entry is pending, data is kept
startFetch(c) ==
    [c EXCEPT !.status = "pending",
              !.request = Some([query |-> getPostsQuery, pc |-> "sent", answer |-> NoAnswer]),
              !.invalidated = FALSE, !.writeSince = FALSE]

\* a committed write invalidates tags: an entry providing one of them is re-executed, at
\* once or, when a fetch of it is in flight, as soon as that fetch has settled
invalidate(c, tags) ==
    IF tags \cap providesTags(GetPosts) = {} \/ c.status = "uninitialized" THEN c
    ELSE IF c.request # Null THEN [c EXCEPT !.invalidated = TRUE]
    ELSE startFetch(c)

\* the fetch in flight settles with answer
settleFetch(c, answer) ==
    LET settled ==
          IF answer.kind = "ok"
          THEN [c EXCEPT !.status = "fulfilled", !.data = Some(answer.body),
                         !.error = FALSE, !.request = Null]
          ELSE [c EXCEPT !.status = "rejected", !.error = TRUE, !.request = Null]
    IN  IF c.invalidated THEN startFetch(settled) ELSE settled

-----------------------------------------------------------------------------
(* MutationDemoContent *)

\* userId: 1 of newPost
NewPostUserId == 1
\* posts.slice(0, 10)
VisiblePosts == 10

\* what the user types into the two required inputs of the form
FormTitles == {"T"}
FormBodies == {"B"}

\* const { data: posts = [], isLoading, error } = useGetPostsQuery()
postsData == IF cache.data = Null THEN <<>> ELSE cache.data[1]
isLoading == cache.status = "pending" /\ cache.data = Null
queryError == cache.error

\* const [addPost, { isLoading: isAdding }] = useAddPostMutation()
isAdding == \E m \in 1..Len(mutations) : mutations[m].endpoint = AddPost

\* the form and the list are rendered: neither of the two early returns is taken
Rendered == mounted /\ ~isLoading /\ ~queryError

\* the posts that have a Delete button
Listed ==
    SubSeq(postsData, 1, IF Len(postsData) < VisiblePosts THEN Len(postsData) ELSE VisiblePosts)

\* a mutation in flight: its endpoint, its argument, the request its query builds, and
\* whether the host has handled it ("sent" until then, "answered" after)
NewMutation(endpoint, arg, query) ==
    [endpoint |-> endpoint, arg |-> arg, query |-> query, pc |-> "sent", answer |-> NoAnswer]

\* the component mounts: useGetPostsQuery() subscribes and the first fetch starts
Mount ==
    /\ ~mounted
    /\ mounted' = TRUE
    /\ cache' = startFetch(cache)
    /\ UNCHANGED <<thunkVars, queryVars, genVars, now, db, mutations>>

\* onSubmit of the form (button disabled={isAdding}): handleSubmit up to its await
HandleSubmit(title, body) ==
    /\ Rendered /\ ~isAdding
    /\ Len(mutations) < MaxMutations
    /\ Len(db) < MaxPosts
    /\ LET newPost == [title |-> title, body |-> body, userId |-> NewPostUserId] IN
         mutations' = Append(mutations, NewMutation(AddPost, newPost, addPostQuery(newPost)))
    /\ UNCHANGED <<thunkVars, queryVars, genVars, now, db, cache, mounted>>

\* onClick of a Delete button: handleDelete(post.id) up to its await
HandleDelete(id) ==
    /\ Rendered
    /\ \E i \in 1..Len(Listed) : Listed[i].id = id
    /\ Len(mutations) < MaxMutations
    /\ mutations' = Append(mutations, NewMutation(DeletePost, id, deletePostQuery(id)))
    /\ UNCHANGED <<thunkVars, queryVars, genVars, now, db, cache, mounted>>

\* the host answers GET /posts, or the request fails
HostGetPosts(reachable) ==
    /\ cache.request # Null /\ cache.request[1].pc = "sent"
    /\ cache' = [cache EXCEPT !.request =
                   Some([cache.request[1] EXCEPT
                           !.pc = "answered",
                           !.answer = IF reachable THEN Ok(getCollection(db))
                                      ELSE Failure(Unreachable)])]
    /\ UNCHANGED <<thunkVars, queryVars, genVars, now, db, mutations, mounted>>

\* the answer to GET /posts arrives at the store
GetPostsArrives ==
    /\ cache.request # Null /\ cache.request[1].pc = "answered"
    /\ cache' = settleFetch(cache, cache.request[1].answer)
    /\ UNCHANGED <<thunkVars, queryVars, genVars, now, db, mutations, mounted>>

\* the host handles POST /posts (r the random offset of generateId) or DELETE /posts/:id
HostHandles(m, r) ==
    /\ mutations[m].pc = "sent"
    /\ LET q == mutations[m].query IN
         IF q.method = "POST"
         THEN LET store == create(db, q.body[1], generateId(now, r)) IN
                /\ db' = store
                /\ mutations' = [mutations EXCEPT ![m].pc = "answered",
                                                  ![m].answer = Ok(<<store[Len(store)]>>)]
         ELSE IF deleteFound(db, q.id[1])
         THEN /\ db' = delete(db, q.id[1])
              /\ mutations' = [mutations EXCEPT ![m].pc = "answered", ![m].answer = Ok(<<>>)]
         ELSE /\ db' = db
              /\ mutations' = [mutations EXCEPT ![m].pc = "answered",
                                                ![m].answer = Failure(NotFound)]
    /\ UNCHANGED <<thunkVars, queryVars, genVars, now, cache, mounted>>

\* the answer to a mutation arrives at the store: fulfilled, the tags of the endpoint are
\* invalidated and unwrap() returns; rejected, unwrap() throws into the catch block
MutationArrives(m) ==
    /\ mutations[m].pc = "answered"
    /\ mutations' = Remove(mutations, m)
    /\ IF mutations[m].answer.kind = "ok"
       THEN /\ cache' = invalidate([cache EXCEPT !.writeSince = TRUE],
                                   invalidatesTags(mutations[m].endpoint))
            /\ reported' = reported
       ELSE /\ cache' = cache
            /\ reported' = Some([via |-> "console.error", error |-> mutations[m].answer.kind])
    /\ UNCHANGED <<users, userId, inflight, microtasks, now, db, mounted, queryVars, genVars>>

-----------------------------------------------------------------------------
(* rtk-query demo: QueryDemoContent (QueryDemo.jsx) *)

GetUsers == "getUsers"
GetUser == "getUser"
GetUserPosts == "getUserPosts"

\* the users that GET /users returns: their ids, in the order of the list
HostUserIds == <<1, 2>>

\* what a fulfilled request of the endpoint carries, as the ids of its records
HostData(endpoint, arg) ==
    IF endpoint = GetUsers THEN HostUserIds
    ELSE IF endpoint = GetUser THEN arg
    ELSE IF arg = Null THEN <<>> ELSE <<arg[1], arg[1] + 1>>

\* a hook option that never skips
skipNever(sel) == FALSE

\* skip: !selectedUserId - null and 0 are falsy
skip(sel) == sel = Null \/ sel = Some(0)

\* the cache entry of (endpoint, arg), as a set with at most one element
Entries(c, endpoint, arg) == {e \in c : e.endpoint = endpoint /\ e.arg = arg}

\* a hook subscribes to (endpoint, arg): a request is issued unless the entry is pending
\* or fulfilled; data already cached is kept while the request is in flight
Subscribe(c, endpoint, arg) ==
    IF \E e \in Entries(c, endpoint, arg) : e.status \in {"pending", "fulfilled"}
    THEN c
    ELSE (c \ Entries(c, endpoint, arg))
           \cup {[endpoint |-> endpoint, arg |-> arg, status |-> "pending", data |-> Null]}

\* a request of (endpoint, arg) is forced: refetch()
Refetch(c, endpoint, arg) ==
    {IF e.endpoint = endpoint /\ e.arg = arg THEN [e EXCEPT !.status = "pending"] ELSE e :
       e \in c}

\* one render of QueryDemoContent with selectedUserId = sel: useGetUsersQuery(),
\* useGetUserQuery(sel, {skip}), useGetUserPostsQuery(sel, {skip})
useQueries(c, sel) ==
    LET withUsers == Subscribe(c, GetUsers, Null) IN
      IF skip(sel) THEN withUsers
      ELSE Subscribe(Subscribe(withUsers, GetUser, sel), GetUserPosts, sel)

usersEntry == Entries(queryCache, GetUsers, Null)
usersLoading == \E e \in usersEntry : e.status = "pending" /\ e.data = Null
usersError == \E e \in usersEntry : e.status = "rejected"

\* the panel with the user list is rendered: neither early return is taken
ListRendered == usersEntry # {} /\ ~usersLoading /\ ~usersError

\* data: users = []
usersData == IF \E e \in usersEntry : e.data # Null
             THEN (CHOOSE e \in usersEntry : TRUE).data[1] ELSE <<>>

\* the component mounts and renders for the first time
QueryMount ==
    /\ queryCache = {}
    /\ queryCache' = useQueries(queryCache, selectedUserId)
    /\ UNCHANGED <<thunkVars, now, mutVars, genVars, selectedUserId>>

\* onClick of a user item: setSelectedUserId(user.id), and the render that follows
SelectUser(id) ==
    /\ ListRendered
    /\ \E i \in 1..Len(usersData) : usersData[i] = id
    /\ selectedUserId' = Some(id)
    /\ queryCache' = useQueries(queryCache, Some(id))
    /\ UNCHANGED <<thunkVars, now, mutVars, genVars>>

\* "Clear Selection": setSelectedUserId(null), and the render that follows
ClearSelection ==
    /\ ListRendered
    /\ selectedUserId # Null
    /\ selectedUserId' = Null
    /\ queryCache' = useQueries(queryCache, Null)
    /\ UNCHANGED <<thunkVars, now, mutVars, genVars>>

\* "Refresh Users": refetchUsers
RefetchUsers ==
    /\ ListRendered
    /\ queryCache' = Refetch(queryCache, GetUsers, Null)
    /\ queryCache' # queryCache
    /\ UNCHANGED <<thunkVars, now, mutVars, genVars, selectedUserId>>

\* a request in flight settles: fulfilled with the host's data, or rejected
QuerySettles(e, ok) ==
    /\ e \in queryCache /\ e.status = "pending"
    /\ queryCache' =
         (queryCache \ {e})
           \cup {IF ok THEN [e EXCEPT !.status = "fulfilled",
                                      !.data = Some(HostData(e.endpoint, e.arg))]
                 ELSE [e EXCEPT !.status = "rejected"]}
    /\ UNCHANGED <<thunkVars, now, mutVars, genVars, selectedUserId>>

\* an entry no hook is subscribed to is removed when its retention time has passed
CacheExpires(e) ==
    /\ e \in queryCache /\ e.status # "pending"
    /\ e.endpoint # GetUsers /\ e.arg # selectedUserId
    /\ queryCache' = queryCache \ {e}
    /\ UNCHANGED <<thunkVars, now, mutVars, genVars, selectedUserId>>

-----------------------------------------------------------------------------
Init ==
    /\ users = initialState
    /\ userId = <<>>
    /\ inflight = <<>>
    /\ microtasks = <<>>
    /\ reported = Null
    /\ now = 0
    /\ db = <<>>
    /\ cache = initialCache
    /\ mutations = <<>>
    /\ mounted = FALSE
    /\ selectedUserId = Null
    /\ queryCache = {}
    /\ calls = <<>>

Next ==
    \/ \E text \in InputTexts : SetUserId(text)
    \/ HandleFetchUser
    \/ HandleFetchPosts
    \/ HandleFetchBoth
    \/ ChainContinue
    \/ HandleClear
    \/ HandleClearErrors
    \/ \E r \in 1..Len(inflight) : TimerFires(r)
    \/ \E r \in 1..Len(inflight) :
         \E resp \in HostUserResponses(inflight[r].arg) :
           \E posts \in (IF resp.kind = "ok" THEN {1} ELSE RandomPostsField) :
             UserResponse(r, resp, posts)
    \/ \E r \in 1..Len(inflight) :
         \E resp \in HostPostsResponses(inflight[r].arg) :
           \E n \in (IF fetchUserPostsUsesHost(resp) THEN {1} ELSE RandomPostCount) :
           \E readings \in ClockReadings(n, now, now) :
             PostsResponse(r, resp, readings)

Spec == Init /\ [][Next]_vars

\* The thunk demo with the id already typed into the input: every id from 1 to MaxUserId
TypedIds == 1..MaxUserId

NextTyped ==
    \/ HandleFetchUser
    \/ HandleFetchPosts
    \/ HandleFetchBoth
    \/ ChainContinue
    \/ HandleClear
    \/ HandleClearErrors
    \/ \E r \in 1..Len(inflight) : TimerFires(r)
    \/ \E r \in 1..Len(inflight) :
         \E resp \in HostUserResponses(inflight[r].arg) :
           \E posts \in (IF resp.kind = "ok" THEN {1} ELSE RandomPostsField) :
             UserResponse(r, resp, posts)
    \/ \E r \in 1..Len(inflight) :
         \E resp \in HostPostsResponses(inflight[r].arg) :
           \E n \in (IF fetchUserPostsUsesHost(resp) THEN {1} ELSE RandomPostCount) :
           \E readings \in ClockReadings(n, now, now) :
             PostsResponse(r, resp, readings)

SpecTyped ==
    /\ users = initialState /\ userId \in {Digits(n) : n \in TypedIds}
    /\ inflight = <<>> /\ microtasks = <<>> /\ reported = Null /\ now = 0
    /\ db = <<>> /\ cache = initialCache /\ mutations = <<>> /\ mounted = FALSE
    /\ selectedUserId = Null /\ queryCache = {} /\ calls = <<>>
    /\ [][NextTyped]_vars

\* The thunk demo against a host that stores none of the requested users: every
\* GET /users/:id is answered not-found
AbsentUserResponses(id) == {resp \in HostUserResponses(id) : resp.kind = "notOk"}

NextAbsent ==
    \/ \E text \in InputTexts : SetUserId(text)
    \/ HandleFetchUser
    \/ HandleFetchPosts
    \/ HandleFetchBoth
    \/ ChainContinue
    \/ HandleClear
    \/ HandleClearErrors
    \/ \E r \in 1..Len(inflight) : TimerFires(r)
    \/ \E r \in 1..Len(inflight) :
         \E resp \in AbsentUserResponses(inflight[r].arg) :
           \E posts \in RandomPostsField :
             UserResponse(r, resp, posts)
    \/ \E r \in 1..Len(inflight) :
         \E resp \in HostPostsResponses(inflight[r].arg) :
           \E n \in (IF fetchUserPostsUsesHost(resp) THEN {1} ELSE RandomPostCount) :
           \E readings \in ClockReadings(n, now, now) :
             PostsResponse(r, resp, readings)

SpecAbsent == Init /\ [][NextAbsent]_vars

\* The thunk demo against a host whose live calls fail or return no data: the request
\* throws, is answered non-OK, or (for the posts) is answered with an empty list
FailedUserResponses(id) == {resp \in HostUserResponses(id) : resp.kind # "ok"}
NoDataPostsResponses(uid) ==
    {resp \in HostPostsResponses(uid) : resp.kind # "ok" \/ resp.body = <<>>}

NextDown ==
    \/ \E text \in InputTexts : SetUserId(text)
    \/ HandleFetchUser
    \/ HandleFetchPosts
    \/ HandleFetchBoth
    \/ ChainContinue
    \/ HandleClear
    \/ HandleClearErrors
    \/ \E r \in 1..Len(inflight) : TimerFires(r)
    \/ \E r \in 1..Len(inflight) :
         \E resp \in FailedUserResponses(inflight[r].arg) :
           \E posts \in RandomPostsField :
             UserResponse(r, resp, posts)
    \/ \E r \in 1..Len(inflight) :
         \E resp \in NoDataPostsResponses(inflight[r].arg) :
           \E n \in RandomPostCount :
           \E readings \in ClockReadings(n, now, now) :
             PostsResponse(r, resp, readings)

SpecDown == Init /\ [][NextDown]_vars

\* The fixture generators called directly
GenIds == (0 - MaxGenId)..MaxGenId

\* a call generateMockUser(id): Math.random() gives posts, new Date() reads the clock
CallGenerateMockUser(id, posts) ==
    /\ Len(calls) < MaxCalls
    /\ calls' = Append(calls, [fn |-> "generateMockUser", arg |-> id,
                               result |-> generateMockUser(id, posts, now)])
    /\ UNCHANGED <<thunkVars, now, mutVars, queryVars>>

NextGen ==
    \/ \E id \in GenIds : \E posts \in RandomPostsField : CallGenerateMockUser(id, posts)
    \/ Tick

SpecGen == Init /\ [][NextGen]_vars

\* The thunk demo with its scheduling: an armed timer of each mockApi function fires, a
\* request that was sent is answered or fails, and a queued continuation runs
TimerStep(thunk) == \E r \in 1..Len(inflight) : inflight[r].thunk = thunk /\ TimerFires(r)

UserResponseStep ==
    \E r \in 1..Len(inflight) :
      \E resp \in HostUserResponses(inflight[r].arg) :
        \E posts \in (IF resp.kind = "ok" THEN {1} ELSE RandomPostsField) :
          UserResponse(r, resp, posts)

PostsResponseStep ==
    \E r \in 1..Len(inflight) :
      \E resp \in HostPostsResponses(inflight[r].arg) :
        \E n \in (IF fetchUserPostsUsesHost(resp) THEN {1} ELSE RandomPostCount) :
        \E readings \in ClockReadings(n, now, now) :
          PostsResponse(r, resp, readings)

Fairness ==
    /\ WF_vars(TimerStep(FetchById))
    /\ WF_vars(TimerStep(FetchPosts))
    /\ WF_vars(UserResponseStep)
    /\ WF_vars(PostsResponseStep)
    /\ WF_vars(ChainContinue)

\* the demo started with an id on either side of the threshold typed into the input
InitLive ==
    /\ users = initialState /\ userId \in {Digits(n) : n \in InputIds}
    /\ inflight = <<>> /\ microtasks = <<>> /\ reported = Null /\ now = 0
    /\ db = <<>> /\ cache = initialCache /\ mutations = <<>> /\ mounted = FALSE
    /\ selectedUserId = Null /\ queryCache = {} /\ calls = <<>>

SpecLive == InitLive /\ [][NextTyped]_vars /\ Fairness

\* The thunk demo with two ids in turn in the input, both below the threshold
SwitchIds == {1, 2}

NextSwitch ==
    \/ \E text \in {Digits(n) : n \in SwitchIds} : SetUserId(text)
    \/ NextTyped

SpecSwitch == Init /\ [][NextSwitch]_vars

\* Calls of mockApi.fetchUserPosts that the host does not serve, as a test bench: the
\* generation loop runs while the clock may advance between two iterations
PostUserIds == {1, 2}
PostCounts == 1..MaxGeneratedPosts

CallFetchUserPostsFallback(uid, resp, readings) ==
    /\ Len(calls) < MaxCalls
    /\ ~fetchUserPostsUsesHost(resp)
    /\ calls' = Append(calls, [fn |-> "fetchUserPosts", arg |-> uid,
                               result |-> fetchUserPostsValue(uid, resp, readings)])
    /\ now' = readings[Len(readings)]
    /\ UNCHANGED <<thunkVars, mutVars, queryVars>>

NextPosts ==
    \/ \E uid \in PostUserIds : \E resp \in HostPostsResponses(uid) :
         \E n \in PostCounts : \E readings \in ClockReadings(n, now, MaxClock) :
           CallFetchUserPostsFallback(uid, resp, readings)
    \/ Tick

SpecPosts == Init /\ [][NextPosts]_vars

\* The rtk-query demo
NextQuery ==
    \/ QueryMount
    \/ \E i \in 1..Len(HostUserIds) : SelectUser(HostUserIds[i])
    \/ ClearSelection
    \/ RefetchUsers
    \/ \E e \in queryCache : \E ok \in BOOLEAN : QuerySettles(e, ok)
    \/ \E e \in queryCache : CacheExpires(e)

SpecQuery == Init /\ [][NextQuery]_vars

\* The rtk-mutation demo against the mock host's post store
NextMut ==
    \/ Mount
    \/ \E title \in FormTitles : \E body \in FormBodies : HandleSubmit(title, body)
    \/ \E id \in Ids(postsData) : HandleDelete(id)
    \/ \E reachable \in BOOLEAN : HostGetPosts(reachable)
    \/ GetPostsArrives
    \/ \E m \in 1..Len(mutations) :
         \E r \in (IF mutations[m].query.method = "POST" THEN RandomOffsets ELSE {0}) :
           HostHandles(m, r)
    \/ \E m \in 1..Len(mutations) : MutationArrives(m)
    \/ Tick

SpecMut == Init /\ [][NextMut]_vars

-----------------------------------------------------------------------------
(* Properties of the thunk demo *)

\* the thunk at position r of inflight settles in this step (its fulfilled or rejected
\* action is dispatched and its promise resolves)
Settles(r) == inflight' = Remove(inflight, r)

\* the thunks in flight that a run of handleFetchBoth dispatched as its second step
ChainPosts(reqs) ==
    {i \in 1..Len(reqs) : reqs[i].thunk = FetchPosts /\ reqs[i].chain # Null}

\* C1: when the fetchUserById of a "Fetch Both" run is rejected, the step that resumes
\* handleFetchBoth dispatches nothing - no fetchUserPosts pending action, no call of
\* mockApi.fetchUserPosts, the slice untouched - and the error ends in the catch block
\* (console.error), not as an unhandled rejection.
C1_ChainStopsOnRejection ==
    [][ (microtasks # <<>> /\ ~Head(microtasks).fulfilled)
          => /\ inflight' = inflight
             /\ users' = users
             /\ reported' = Some([via |-> "console.error", error |-> Head(microtasks).payload])
      ]_vars

\* a "Fetch Both" run whose user fetch was rejected has ended in its catch block
C1_Witness ==
    /\ reported = Some([via |-> "console.error", error |-> UserNotFound])
    /\ microtasks = <<>>
    /\ ChainPosts(inflight) = {}
    /\ users.error = Some(UserNotFound)

\* C2: every fetchUserPosts that a "Fetch Both" run has in flight was dispatched after the
\* run's fetchUserById was fulfilled (userResult is set only from the fulfilled payload)
\* and for the id of the record that payload holds; and when the run is resumed with a
\* fulfilled payload, the fulfilled action has already been reduced.
C2_ChainPostsAfterUser ==
    /\ \A i \in ChainPosts(inflight) :
         /\ inflight[i].chain[1].userResult # Null
         /\ inflight[i].arg = inflight[i].chain[1].userResult[1].id
    /\ (microtasks # <<>> /\ Head(microtasks).fulfilled)
         => /\ users.currentUser = Some(Head(microtasks).payload)
            /\ ~users.loading

\* the second step of a "Fetch Both" run is in flight
C2_Witness ==
    \E i \in ChainPosts(inflight) :
        /\ inflight[i].chain[1].userResult # Null
        /\ inflight[i].arg = NotFoundThreshold

\* C3: a fetchUserById for an id > 10 never sends a request to the host, and when it
\* settles it is rejected with "User not found": loading = false, error = "User not
\* found", currentUser as before.
C3_AboveTenRejected ==
    [][ \A r \in 1..Len(inflight) :
          (inflight[r].thunk = FetchById /\ inflight[r].arg > NotFoundThreshold)
            => /\ inflight[r].pc = "timer"
               /\ Settles(r)
                    => /\ users'.loading = FALSE
                       /\ users'.error = Some(UserNotFound)
                       /\ users'.currentUser = users.currentUser
               /\ ~Settles(r) /\ Len(inflight') >= r
                    => inflight'[r].pc = "timer"
      ]_vars

\* a fetchUserById for an id above 10 has been rejected
C3_Witness ==
    /\ parseInt(userId) > NotFoundThreshold + 1
    /\ users.error = Some(UserNotFound)
    /\ ~users.loading
    /\ inflight = <<>>

\* C4: a fetchUserById for an id in 1..10 is never rejected: whatever the host answers,
\* when it settles the slice holds a currentUser whose id is the requested id, loading is
\* false and error is what it was.
C4_OneToTenFulfilled ==
    [][ \A r \in 1..Len(inflight) :
          (inflight[r].thunk = FetchById /\ inflight[r].arg \in 1..NotFoundThreshold
             /\ Settles(r))
            => /\ users'.currentUser # Null
               /\ users'.currentUser[1].id = inflight[r].arg
               /\ users'.loading = FALSE
               /\ users'.error = users.error
               /\ inflight[r].pc = "fetch"
      ]_vars

\* the user with the largest id that succeeds has been stored from generated data
C4_Witness ==
    /\ users.currentUser # Null
    /\ users.currentUser[1] \in {generateMockUser(NotFoundThreshold, p, now) : p \in RandomPostsField}
    /\ ~users.loading
    /\ users.error = Null

\* the thunks in flight of the same kind as the one at position r, other than it
SameKind(reqs, r) ==
    {i \in 1..Len(reqs) : i # r /\ reqs[i].thunk = reqs[r].thunk}

\* C5: a thunk that was superseded by a newer dispatch of the same kind has its result
\* discarded when it arrives: the step in which it settles, the newer one already
\* settled, leaves the data the slice holds for that kind (currentUser, userPosts) as the
\* newer result set it.
C5_StaleResultDiscarded ==
    [][ \A r \in 1..Len(inflight) :
          (inflight[r].superseded /\ SameKind(inflight, r) = {} /\ Settles(r))
            => /\ users'.userPosts = users.userPosts
               /\ users'.currentUser = users.currentUser
      ]_vars

\* C7: two reads of the same resource with the same parameters are never outstanding at
\* the same time: every thunk in flight is one running call of mockApi, so no two thunks
\* in flight have the same type and the same argument.
C7_DuplicateReadsShareOneCall ==
    \A i, j \in 1..Len(inflight) :
        (inflight[i].thunk = inflight[j].thunk /\ inflight[i].arg = inflight[j].arg)
          => i = j

-----------------------------------------------------------------------------
(* Properties of the rtk-mutation demo and of the host's post store *)

\* the host handles the mutation at position m in this step
Handled(m) ==
    /\ Len(mutations') = Len(mutations)
    /\ mutations[m].pc = "sent"
    /\ mutations'[m].pc = "answered"

C8_CreateAddsOneNewRecord ==
    [][ \A m \in 1..Len(mutations) :
          (mutations[m].endpoint = AddPost /\ Handled(m))
            => LET before == getCollection(db)
                   after == getCollection(db')
               IN  /\ Len(after) = Len(before) + 1
                   /\ SubSeq(after, 1, Len(before)) = before
                   /\ after[Len(after)].title = mutations[m].arg.title
                   /\ after[Len(after)].body = mutations[m].arg.body
                   /\ after[Len(after)].id \notin Ids(before)
      ]_vars

\* C9: when the host handles a deletePost, an id that no stored post has is answered
\* NotFound and the store is unchanged; an id that a stored post has is answered with
\* success, one record is removed, and the collection read after it has no post of that id.
C9_DeleteRemovesOrNotFound ==
    [][ \A m \in 1..Len(mutations) :
          (mutations[m].endpoint = DeletePost /\ Handled(m))
            => LET id == mutations[m].arg IN
                 IF id \notin Ids(db)
                 THEN /\ mutations'[m].answer = Failure(NotFound)
                      /\ db' = db
                 ELSE /\ mutations'[m].answer = Ok(<<>>)
                      /\ Len(db') = Len(db) - 1
                      /\ id \notin Ids(getCollection(db'))
      ]_vars

\* C10: on an empty store the create of an addPost leaves exactly one post, the one it
\* returns; and on a store holding exactly one post the deletePost of that post's id
\* succeeds and leaves the store empty.
C10_CreateDeleteRoundTrip ==
    [][ \A m \in 1..Len(mutations) :
          Handled(m)
            => /\ (mutations[m].endpoint = AddPost /\ db = <<>>)
                    => /\ Len(db') = 1
                       /\ mutations'[m].answer = Ok(db')
               /\ (mutations[m].endpoint = DeletePost /\ Len(db) = 1
                     /\ mutations[m].arg = db[1].id)
                    => /\ db' = <<>>
                       /\ mutations'[m].answer = Ok(<<>>)
      ]_vars

\* the one post of the list was created on an empty store and its deletePost has emptied
\* the store again
C10_Witness ==
    /\ db = <<>>
    /\ Len(postsData) = 1
    /\ \E m \in 1..Len(mutations) :
         /\ mutations[m].endpoint = DeletePost
         /\ mutations[m].arg = postsData[1].id
         /\ mutations[m].answer = Ok(<<>>)

\* the records a fulfilled fetchUserById(id) can carry: the host's, or a generated one
UserRecords(id) ==
    {HostUser(id)} \cup {generateMockUser(id, p, t) : p \in RandomPostsField, t \in 0..MaxClock}

\* C11: a thunk settles with exactly one of the two outcome shapes - fulfilled with a
\* record of the requested user (or a collection of that user's posts), or rejected with
\* the message string of the failure - nothing is reported outside the store in that
\* step, and a handler awaiting the thunk is resumed once, with that same outcome.
C11_OneOutcomePerDispatch ==
    [][ \A r \in 1..Len(inflight) :
          Settles(r)
            => LET q == inflight[r]
                   fulfilled ==
                     IF q.thunk = FetchById
                     THEN /\ users'.currentUser # Null
                          /\ users'.currentUser[1] \in UserRecords(q.arg)
                          /\ users'.error = users.error
                     ELSE /\ users'.userPosts # <<>>
                          /\ \A i \in 1..Len(users'.userPosts) :
                               users'.userPosts[i].userId = q.arg
                          /\ users'.postsError = users.postsError
                   rejected ==
                     IF q.thunk = FetchById
                     THEN /\ users'.error = Some(UserNotFound)
                          /\ users'.currentUser = users.currentUser
                     ELSE /\ users'.postsError # Null
                          /\ users'.userPosts = users.userPosts
               IN  /\ fulfilled # rejected
                   /\ reported' = reported
                   /\ IF q.thunk = FetchById /\ q.chain # Null
                      THEN /\ Len(microtasks') = Len(microtasks) + 1
                           /\ microtasks'[Len(microtasks')].fulfilled = fulfilled
                      ELSE microtasks' = microtasks
      ]_vars

\* both outcomes have occurred: a user and its posts are stored, and a later fetchUserById
\* was rejected
C11_Witness ==
    /\ users.currentUser # Null
    /\ users.userPosts # <<>>
    /\ users.error = Some(UserNotFound)
    /\ inflight = <<>>
    /\ reported = Null

\* C12: when the host answers GET /users/:id with not-found, the fetchUserById ends as a
\* failure: its settling sets error to a message and leaves currentUser as it was, and no
\* record made up for the absent one is stored.
C12_AbsentUserIsFailure ==
    [][ \A r \in 1..Len(inflight) :
          (inflight[r].thunk = FetchById /\ Settles(r))
            => /\ users'.error # Null
               /\ users'.currentUser = users.currentUser
      ]_vars

\* C13: when the live call fails or returns no data, a read ends as a success carrying
\* generated data: a fetchUserById for an id up to 10 stores generateMockUser(id) and no
\* error, and a fetchUserPosts stores a list of 1 to 5 posts of that user, each the
\* generateMockPost of its own id, and no error.
C13_ReadsFallBackToGenerated ==
    [][ \A r \in 1..Len(inflight) :
          Settles(r)
            => LET q == inflight[r] IN
                 IF q.thunk = FetchPosts
                 THEN /\ Len(users'.userPosts) \in 1..MaxGeneratedPosts
                      /\ \A i \in 1..Len(users'.userPosts) :
                           LET p == users'.userPosts[i] IN
                             /\ p.userId = q.arg
                             /\ p.id = p.createdAt + i
                             /\ p = generateMockPost(q.arg, p.id, p.createdAt)
                      /\ users'.postsError = Null
                      /\ users'.postsLoading = FALSE
                 ELSE q.arg <= NotFoundThreshold
                        => /\ users'.currentUser # Null
                           /\ \E n \in RandomPostsField :
                                users'.currentUser[1] = generateMockUser(q.arg, n, now)
                           /\ users'.error = Null
                           /\ users'.loading = FALSE
      ]_vars

\* a generated user and the longest generated list of its posts are stored
C13_Witness ==
    /\ users.currentUser = Some(generateMockUser(NotFoundThreshold, PostsFieldMax, now))
    /\ Len(users.userPosts) = MaxGeneratedPosts
    /\ users.userPosts[1] = generateMockPost(NotFoundThreshold, now + 1, now)
    /\ users.error = Null /\ users.postsError = Null

\* C14: nothing is retried. A thunk in flight only moves forward - from its timer to its
\* one request to the host, then out of flight - and a step in which a failure is stored
\* takes the failed fetchUserById out of flight and starts nothing. A thunk is added only
\* by a click handler (no continuation is queued) or as the second step of a "Fetch Both"
\* whose first step was fulfilled.
C14_NoAutomaticRetry ==
    [][ /\ Len(inflight') = Len(inflight)
          => \A i \in 1..Len(inflight) :
               \/ inflight'[i] = inflight[i]
               \/ /\ inflight[i].pc = "timer"
                  /\ inflight'[i] = [inflight[i] EXCEPT !.pc = "fetch"]
        /\ Len(inflight') < Len(inflight)
          => \E r \in 1..Len(inflight) : Settles(r)
        /\ Len(inflight') > Len(inflight)
          => LET new == inflight'[Len(inflight')] IN
               /\ Len(inflight') = Len(inflight) + 1
               /\ new.pc = "timer"
               /\ SubSeq(inflight', 1, Len(inflight)) = Supersede(inflight, new.thunk)
               /\ \/ microtasks = <<>>
                  \/ /\ Head(microtasks).fulfilled
                     /\ new.thunk = FetchPosts
                     /\ new.chain # Null
        /\ (users'.error # Null /\ users'.error # users.error)
          => \E r \in 1..Len(inflight) : Settles(r) /\ inflight[r].thunk = FetchById
      ]_vars

\* a "Fetch User" was rejected and nothing is in flight or queued afterwards
C14_Witness ==
    /\ users.error = Some(UserNotFound)
    /\ users.currentUser = Null
    /\ inflight = <<>>
    /\ microtasks = <<>>
    /\ reported = Null

\* the thunks of one kind that are in flight
InFlightOf(thunk) == {i \in 1..Len(inflight) : inflight[i].thunk = thunk}

\* C15: for every sequence of clicks the enabled buttons allow, at most one fetchUserById
\* and at most one fetchUserPosts is in flight.
C15_OneRequestPerKind ==
    /\ Cardinality(InFlightOf(FetchById)) <= 1
    /\ Cardinality(InFlightOf(FetchPosts)) <= 1

\* C16: two calls generateMockUser(id) with the same id return the same id, name and
\* email, whatever their random post counts and creation times.
C16_DerivedFieldsDeterministic ==
    \A i, j \in 1..Len(calls) :
        (calls[i].fn = "generateMockUser" /\ calls[j].fn = "generateMockUser"
           /\ calls[i].arg = calls[j].arg)
          => /\ calls[i].result.id = calls[j].result.id
             /\ calls[i].result.name = calls[j].result.name
             /\ calls[i].result.email = calls[j].result.email

\* generateMockUser was called twice for one id, and the two results differ in posts and
\* in createdAt
C16_Witness ==
    /\ Len(calls) >= 2
    /\ calls[1].fn = "generateMockUser" /\ calls[2].fn = "generateMockUser"
    /\ calls[1].arg = calls[2].arg
    /\ calls[1].result.posts # calls[2].result.posts
    /\ calls[1].result.createdAt # calls[2].result.createdAt

\* C17: no two posts stored by the host have the same id, in every state reached by
\* creates (each id a generateId()) and deletes.
C17_PostIdsUnique ==
    \A i, j \in 1..Len(db) : db[i].id = db[j].id => i = j

\* C18: a getUser or getUserPosts request is issued only in a step after which a user is
\* selected, and only for the selected id; while selectedUserId is null none is issued.
C18_NoRequestWithoutSelection ==
    [][ \A e \in queryCache' \ queryCache :
          (e.status = "pending" /\ e.endpoint \in {GetUser, GetUserPosts})
            => /\ selectedUserId' # Null
               /\ e.arg = selectedUserId'
      ]_vars

\* the second user of the list is selected and both of its requests are in flight, the
\* selection having been cleared before
C18_Witness ==
    /\ selectedUserId = Some(HostUserIds[2])
    /\ \E e \in Entries(queryCache, GetUser, selectedUserId) : e.status = "pending"
    /\ \E e \in Entries(queryCache, GetUserPosts, selectedUserId) : e.status = "pending"
    /\ \E e \in Entries(queryCache, GetUser, Some(HostUserIds[1])) : e.status = "fulfilled"

\* a fetchUserById is dispatched in this step
DispatchesUser ==
    /\ Len(inflight') = Len(inflight) + 1
    /\ inflight'[Len(inflight')].thunk = FetchById

\* C19: the lifecycle of one fetchUserById: its pending action sets loading, clears error
\* and keeps currentUser; when it is fulfilled loading is false, currentUser is the
\* returned record and error is null; when it is rejected loading is false, error is the
\* failure message and currentUser is left as it was.
C19_UserFetchLifecycle ==
    [][ /\ DispatchesUser
          => /\ users'.loading = TRUE
             /\ users'.error = Null
             /\ users'.currentUser = users.currentUser
        /\ \A r \in 1..Len(inflight) :
             (inflight[r].thunk = FetchById /\ Settles(r))
               => /\ users'.loading = FALSE
                  /\ \/ /\ users'.currentUser # Null
                        /\ users'.currentUser[1] \in UserRecords(inflight[r].arg)
                        /\ users'.error = Null
                     \/ /\ users'.error = Some(UserNotFound)
                        /\ users'.currentUser = users.currentUser
      ]_vars

\* a rejected fetchUserById has left the user fetched before it in place
C19_Witness ==
    /\ users.currentUser # Null
    /\ users.currentUser[1].id \in 1..NotFoundThreshold
    /\ parseInt(userId) > NotFoundThreshold
    /\ users.error = Some(UserNotFound)
    /\ ~users.loading
    /\ InFlightOf(FetchById) = {}

\* a fetchUserPosts is dispatched in this step
DispatchesPosts ==
    /\ Len(inflight') = Len(inflight) + 1
    /\ inflight'[Len(inflight')].thunk = FetchPosts

\* C20: the pending, fulfilled and rejected actions of fetchUserById leave userPosts,
\* postsLoading and postsError unchanged, and those of fetchUserPosts leave currentUser,
\* loading and error unchanged.
C20_OperationsIndependent ==
    [][ /\ (DispatchesUser
              \/ \E r \in 1..Len(inflight) : inflight[r].thunk = FetchById /\ Settles(r))
          => /\ users'.userPosts = users.userPosts
             /\ users'.postsLoading = users.postsLoading
             /\ users'.postsError = users.postsError
        /\ (DispatchesPosts
              \/ \E r \in 1..Len(inflight) : inflight[r].thunk = FetchPosts /\ Settles(r))
          => /\ users'.currentUser = users.currentUser
             /\ users'.loading = users.loading
             /\ users'.error = users.error
      ]_vars

\* a fetchUserPosts is pending while the error of a rejected fetchUserById is still shown
C20_Witness ==
    /\ users.error = Some(UserNotFound)
    /\ users.postsLoading
    /\ ~users.loading
    /\ InFlightOf(FetchPosts) # {}

\* C21: while a request of one kind is pending no error of that kind is stored:
\* loading implies error = null, and postsLoading implies postsError = null.
C21_NoErrorWhileLoading ==
    /\ users.loading => users.error = Null
    /\ users.postsLoading => users.postsError = Null

\* a fetchUserById is pending with no error stored, after a Fetch Both run whose user
\* fetch was rejected (its message was logged)
C21_Witness ==
    /\ reported # Null
    /\ users.loading
    /\ users.error = Null
    /\ InFlightOf(FetchById) # {}

\* C22: a fetchUserPosts is dispatched only while a fetched user is stored, and for that
\* user's id: Fetch Posts does nothing while currentUser is null and takes currentUser.id
\* at the click, Fetch Both takes the id of the user its first step has just stored.
C22_PostsOnlyForFetchedUser ==
    [][ DispatchesPosts
          => /\ users.currentUser # Null
             /\ inflight'[Len(inflight')].arg = users.currentUser[1].id
             /\ users'.currentUser = users.currentUser
      ]_vars

\* Fetch Posts was clicked for the stored user, whose id is no longer the one in the input
C22_Witness ==
    /\ users.currentUser # Null
    /\ userId # <<>>
    /\ parseInt(userId) # users.currentUser[1].id
    /\ \E i \in InFlightOf(FetchPosts) :
         /\ inflight[i].chain = Null
         /\ inflight[i].arg = users.currentUser[1].id

\* the slice after the fetchUserById of argument arg has settled on the host's answer resp
\* (a thrown 'User not found' when the id is above the threshold)
AfterUser(state, arg, resp, posts) ==
    IF fetchUserThrows(arg) THEN fetchUserByIdRejected(state, UserNotFound)
    ELSE fetchUserByIdFulfilled(state, fetchUserValue(arg, resp, posts, now))

\* the slice after the fetchUserPosts of argument arg has settled on the host's answer resp
AfterPosts(state, arg, resp, readings) ==
    fetchUserPostsFulfilled(state, fetchUserPostsValue(arg, resp, readings))

replaceAll(s, from, to) == [i \in 1..Len(s) |-> IF s[i] = from THEN to ELSE s[i]]

\* C24: for every integer id, generateMockUser(id) returns id unchanged, the name of the
\* pool at index id modulo 5, and as email that name in lower case with every space
\* replaced by a dot, then '@' and the domain of the pool at index id modulo 5.
C24_PoolSelectionForEveryId ==
    \A c \in 1..Len(calls) :
        calls[c].fn = "generateMockUser"
          => LET id == calls[c].arg
                 name == names[(id % PoolSize) + 1]
                 domain == domains[(id % PoolSize) + 1]
             IN  /\ calls[c].result.id = id
                 /\ calls[c].result.name = name
                 /\ calls[c].result.email
                      = replaceAll(toLowerCase(name), " ", ".") \o <<"@">> \o domain

\* C25: whenever a user and a non-empty list of posts are stored together, every post of
\* the list belongs to that user.
C25_PostsBelongToCurrentUser ==
    (users.currentUser # Null /\ users.userPosts # <<>>)
      => \A i \in 1..Len(users.userPosts) :
           users.userPosts[i].userId = users.currentUser[1].id

\* C26: from the state that Clear All leaves (the slice is its own clearUser image and the
\* input is empty), every step other than the user's next action keeps currentUser null
\* and userPosts empty, whatever was in flight at the click. In that state the only
\* enabled user actions are typing into the input, which changes userId, and the two
\* Clear buttons, which change nothing. Where the input is only ever set to an id
\* (SpecSwitch), a request is in flight in such a state only after a Clear All.
C26_ClearAllIsFinal ==
    [][ (users = clearUser(users) /\ userId = <<>> /\ userId' = userId)
          => /\ users'.currentUser = Null
             /\ users'.userPosts = <<>>
      ]_vars

\* C27: loading is true exactly while a fetchUserById is in flight, and postsLoading is
\* true exactly while a fetchUserPosts is in flight.
C27_LoadingTracksInFlight ==
    /\ users.loading <=> InFlightOf(FetchById) # {}
    /\ users.postsLoading <=> InFlightOf(FetchPosts) # {}

\* C28: whatever the host answers, a fetchUserPosts settles fulfilled - a non-empty list is
\* stored and postsLoading reset - and postsError is null after every step.
C28_PostsFetchNeverFails ==
    [][ /\ users'.postsError = Null
        /\ \A r \in 1..Len(inflight) :
             (inflight[r].thunk = FetchPosts /\ Settles(r))
               => /\ users'.userPosts # <<>>
                  /\ users'.postsLoading = FALSE
                  /\ inflight[r].pc = "fetch"
      ]_vars

\* a posts fetch that the host did not serve was fulfilled with the largest generated list
C28_Witness ==
    /\ Len(users.userPosts) = MaxGeneratedPosts
    /\ users.postsError = Null
    /\ ~users.postsLoading
    /\ InFlightOf(FetchPosts) = {}

\* C29: a list that fetchUserPosts(userId) generates has between 1 and 5 posts, each with
\* the requested userId; the post ids are pairwise distinct, and the title and the body
\* of each post are the pool entries at index post id modulo 5.
C29_GeneratedPostsWellFormed ==
    \A c \in 1..Len(calls) :
        calls[c].fn = "fetchUserPosts"
          => LET posts == calls[c].result IN
               /\ Len(posts) \in 1..MaxGeneratedPosts
               /\ \A i \in 1..Len(posts) :
                    /\ posts[i].userId = calls[c].arg
                    /\ posts[i].title = titles[(posts[i].id % PoolSize) + 1]
                    /\ posts[i].body = bodies[(posts[i].id % PoolSize) + 1]
               /\ \A i, j \in 1..Len(posts) : i # j => posts[i].id # posts[j].id

\* five posts were generated within one millisecond, and two posts during a clock tick
C29_Witness ==
    \E c, d \in 1..Len(calls) :
        /\ calls[c].fn = "fetchUserPosts" /\ calls[d].fn = "fetchUserPosts"
        /\ Len(calls[c].result) = MaxGeneratedPosts
        /\ calls[c].result[1].createdAt = calls[c].result[MaxGeneratedPosts].createdAt
        /\ Len(calls[d].result) = 2
        /\ calls[d].result[1].createdAt < calls[d].result[2].createdAt

\* C30: under fair scheduling of the timers, the host's answers and the continuations,
\* loading = true leads to loading = false and postsLoading = true leads to
\* postsLoading = false.
C30_EveryRequestSettles ==
    /\ users.loading ~> ~users.loading
    /\ users.postsLoading ~> ~users.postsLoading

\* everything has settled: a user fetch and a posts fetch were started and both flags
\* are down again, with nothing in flight
C30_Witness ==
    /\ inflight = <<>> /\ microtasks = <<>>
    /\ ~users.loading /\ ~users.postsLoading
    /\ users.currentUser # Null
    /\ users.userPosts # <<>>

====
